---------------------------- MODULE Spec2Model ----------------------------
(***************************************************************************)
(* A model of the chat relay backend (madlen-app/backend/chat).            *)
(*                                                                         *)
(* The conversation store is the ChatMessage table.  Two request workers   *)
(* run ChatAPIView.post; every step of a worker is one store access (or    *)
(* the one outbound call) of the handler, so that requests interleave at   *)
(* the store exactly where the code lets them.                             *)
(*                                                                         *)
(* Text that the code inspects character by character (the message and     *)
(* the stored content) is a sequence of one-character strings; opaque      *)
(* identifiers (model names, session ids, error codes) are strings.        *)
(***************************************************************************)
EXTENDS Naturals, Sequences, FiniteSets, TLC

(***************************************************************************)
(* Bounds of the model.                                                    *)
(***************************************************************************)
\* Messages the busy session "s1" holds before the first request.
MaxPrior == 12

(***************************************************************************)
(* Program constants.                                                      *)
(***************************************************************************)
\* views.py:302  queryset.order_by('-timestamp')[:10]
HistoryLimit == 10
\* serializers.py:21  max_length=10000
MaxMessageLength == 10000
\* serializers.py:20  min_length=1
MinMessageLength == 1
\* Python's None (also: a key that a dict does not hold).
None == "<None>"

\* services.py:34  OPENROUTER_DEFAULT_MODEL
default_model == "openai/gpt-3.5-turbo"

\* models.py:10-13  ChatMessage.RoleChoices
RoleChoices == {"user", "assistant", "system"}

\* The request workers (thread-per-request substrate), in the order in which
\* they accept a request.  Each serves one request.
Workers == <<"w1", "w2">>
Procs == {Workers[i] : i \in 1..Len(Workers)}

\* Values uuid.uuid4() returns, in the order it returns them.
UUIDs == <<"uuid-1", "uuid-2", "uuid-3", "uuid-4", "uuid-5", "uuid-6">>

VARIABLES
    store,      \* the ChatMessage table: a set of rows
    clock,      \* the wall clock, in units of the timestamp resolution
    api_key,    \* settings.OPENROUTER_API_KEY
    issued,     \* number of uuid4 values generated so far
    pc,         \* per worker: its position in ChatAPIView.post
    frame,      \* per worker: the local variables of its call of post
    finished,   \* the return of post, in the state it returns in: the
                \* worker, its locals at the return, and the HTTP response
    workload,   \* how requests arrive in this run: "serial", "overlapping",
                \* or "reading" (serial, with the two GET endpoints in use)
    written,    \* per worker: the ids of the rows its request has created
                \* (a history variable: no action reads it)
    read        \* the return of a GET handler, in the state it returns in:
                \* the endpoint, its query parameters, the HTTP response, and
                \* the response of the same query one step earlier, if any

vars == <<store, clock, api_key, issued, pc, frame, finished, workload,
          written, read>>

(***************************************************************************)
(* Text.                                                                   *)
(***************************************************************************)
Whitespace == {" ", "\t"}

RECURSIVE lstrip(_)
lstrip(s) ==
    IF s # <<>> /\ Head(s) \in Whitespace THEN lstrip(Tail(s)) ELSE s

RECURSIVE rstrip(_)
rstrip(s) ==
    IF s # <<>> /\ s[Len(s)] \in Whitespace
    THEN rstrip(SubSeq(s, 1, Len(s) - 1))
    ELSE s

\* str.strip()
strip(s) == rstrip(lstrip(s))

DigitChar == <<"0", "1", "2", "3", "4", "5", "6", "7", "8", "9">>

\* str(n) for a natural number
RECURSIVE Decimal(_)
Decimal(n) ==
    IF n < 10 THEN <<DigitChar[n + 1]>>
    ELSE Decimal(n \div 10) \o <<DigitChar[(n % 10) + 1]>>

Min(a, b) == IF a < b THEN a ELSE b

(***************************************************************************)
(* The conversation store (models.py) and the queries the views run.       *)
(***************************************************************************)
\* models.py:4-41  one row of ChatMessage
ChatMessage(id, role, content, model, ts, sid) ==
    [id |-> id, role |-> role, content |-> content, model_name |-> model,
     timestamp |-> ts, session_id |-> sid]

\* The AutoField primary key: rows are never deleted, so the next id is the
\* row count plus one.
NextId(rows) == Cardinality(rows) + 1

\* A create that also stamps every row of the session with the time of the
\* write (timestamp as auto_now on the session).
objects_create_TouchesSession(rows, role, content, model, sid, now) ==
    {m \in rows : m.session_id # sid}
    \cup {[m EXCEPT !.timestamp = now] : m \in {n \in rows : n.session_id = sid}}
    \cup {ChatMessage(NextId(rows), role, content, model, now, sid)}

\* ChatMessage.objects.create(...): timestamp is auto_now_add.
objects_create(rows, role, content, model, sid, now) ==
    rows \cup {ChatMessage(NextId(rows), role, content, model, now, sid)}

\* The query without its filter.
filter_session_AnySession(rows, sid) == rows

\* ChatMessage.objects.filter(session_id=sid)
filter_session(rows, sid) == {m \in rows : m.session_id = sid}

\* queryset.exclude(id=exclude_id)
exclude_id(rows, id) == {m \in rows : m.id # id}

RECURSIVE Perms(_)
Perms(G) ==
    IF G = {} THEN {<<>>}
    ELSE UNION {{<<x>> \o p : p \in Perms(G \ {x})} : x \in G}

\* queryset.order_by('timestamp'): the database returns the rows by
\* ascending timestamp; rows with equal timestamps come in any order.
RECURSIVE order_by_timestamp(_)
order_by_timestamp(rows) ==
    IF rows = {} THEN {<<>>}
    ELSE LET t == CHOOSE t \in {m.timestamp : m \in rows} :
                    \A m \in rows : t <= m.timestamp
             G == {m \in rows : m.timestamp = t}
         IN  {p \o r : p \in Perms(G), r \in order_by_timestamp(rows \ G)}

\* queryset.order_by('-timestamp')
RECURSIVE order_by_timestamp_desc(_)
order_by_timestamp_desc(rows) ==
    IF rows = {} THEN {<<>>}
    ELSE LET t == CHOOSE t \in {m.timestamp : m \in rows} :
                    \A m \in rows : t >= m.timestamp
             G == {m \in rows : m.timestamp = t}
         IN  {p \o r : p \in Perms(G), r \in order_by_timestamp_desc(rows \ G)}

\* seq[:n]
Slice(s, n) == SubSeq(s, 1, Min(Len(s), n))

\* reversed(seq)
Reversed(s) == [i \in 1..Len(s) |-> s[Len(s) + 1 - i]]

\* ChatMessageSerializer: the six fields of Meta.fields.
ChatMessageSerializer(m) ==
    [id |-> m.id, role |-> m.role, content |-> m.content,
     model_name |-> m.model_name, timestamp |-> m.timestamp,
     session_id |-> m.session_id]

\* ChatMessageSerializer(queryset, many=True).data
SerializeMany(s) == [i \in 1..Len(s) |-> ChatMessageSerializer(s[i])]

\* The context window read without excluding the turn just written.
get_conversation_history_NoExclude(rows, sid, exclude) ==
    { [i \in 1..Len(msgs) |->
          [role |-> Reversed(msgs)[i].role,
           content |-> Reversed(msgs)[i].content]] :
      msgs \in {Slice(o, HistoryLimit) :
                   o \in order_by_timestamp_desc(filter_session(rows, sid))} }

\* ChatAPIView._get_conversation_history: every list the call can return.
get_conversation_history(rows, sid, exclude) ==
    LET queryset == IF exclude # 0
                    THEN exclude_id(filter_session(rows, sid), exclude)
                    ELSE filter_session(rows, sid)
    IN  { [i \in 1..Len(msgs) |->
              [role |-> Reversed(msgs)[i].role,
               content |-> Reversed(msgs)[i].content]] :
          msgs \in {Slice(o, HistoryLimit) :
                       o \in order_by_timestamp_desc(queryset)} }

(***************************************************************************)
(* Request validation (serializers.py, ChatRequestSerializer).             *)
(***************************************************************************)
\* dict.get(key, default)
Get(d, k, default) == IF k \in DOMAIN d THEN d[k] ELSE default

\* ChatRequestSerializer.validate_message: the error raised, or None.
validate_message(value) ==
    IF strip(value) = <<>> THEN "empty" ELSE None

\* The message is not trimmed before it is checked.
message_error_NoTrim(data) ==
    IF "message" \notin DOMAIN data THEN "required"
    ELSE IF data.message = <<>> THEN "blank"
    ELSE IF Len(data.message) > MaxMessageLength THEN "max_length"
    ELSE None

\* message = CharField(required=True, min_length=1, max_length=10000):
\* the field's error for the request body, or None.
message_error(data) ==
    IF "message" \notin DOMAIN data THEN "required"
    ELSE IF strip(data.message) = <<>> THEN "blank"
    ELSE IF Len(strip(data.message)) > MaxMessageLength THEN "max_length"
    ELSE IF Len(strip(data.message)) < MinMessageLength THEN "min_length"
    ELSE validate_message(strip(data.message))

\* model_name = CharField(required=False, default=None): blank is refused.
model_name_error(data) ==
    IF "model_name" \in DOMAIN data /\ data.model_name = "" THEN "blank"
    ELSE None

\* session_id = CharField(required=False, default=None, allow_blank=True)
session_id_error(data) == None

\* serializer.errors: the fields in error, each with its error.
serializer_errors(data) ==
    LET e == [message |-> message_error(data),
              model_name |-> model_name_error(data),
              session_id |-> session_id_error(data)]
    IN  [k \in {f \in DOMAIN e : e[f] # None} |-> e[k]]

\* serializer.is_valid()
is_valid(data) == DOMAIN serializer_errors(data) = {}

\* serializer.validated_data
validated_data(data) ==
    [message |-> strip(strip(data.message)),
     model_name |-> Get(data, "model_name", None),
     session_id |-> Get(data, "session_id", None)]

\* Python truthiness of an optional string: None and '' are falsy.
Falsy(x) == x = None \/ x = ""

\* views.py:178  validated_data.get('model_name') or default_model
resolve_model_name(v) ==
    IF Falsy(v.model_name) THEN default_model ELSE v.model_name

\* The session id of the request is kept as it is, blank or None.
resolve_session_id_KeepsBlank(v, uuid) == v.session_id

\* A new session id is generated whatever the request names.
resolve_session_id_AlwaysNew(v, uuid) == uuid

\* views.py:179  validated_data.get('session_id') or str(uuid.uuid4())
resolve_session_id(v, uuid) ==
    IF Falsy(v.session_id) THEN uuid ELSE v.session_id

(***************************************************************************)
(* Exceptions (exceptions.py).                                             *)
(***************************************************************************)
\* An exception: its class, e.code, the text of str(e) with the number
\* formatted into it (0: none), and e.status_code (0: None).
Exc(type, code, text, arg, status_code) ==
    [type |-> type, code |-> code, message |-> text, arg |-> arg,
     status_code |-> status_code]

NoException == Exc(None, None, None, 0, 0)

InvalidAPIKeyError(text) ==
    Exc("InvalidAPIKeyError", "INVALID_API_KEY", text, 0, 0)

RateLimitError(text) ==
    Exc("RateLimitError", "RATE_LIMIT", text, 0, 0)

OpenRouterConnectionError(text, arg) ==
    Exc("OpenRouterConnectionError", "CONNECTION_ERROR", text, arg, 0)

OpenRouterAPIError(text, arg, status_code) ==
    Exc("OpenRouterAPIError", "API_ERROR", text, arg, status_code)

\* Any exception that is no OpenRouterException: IndexError, TypeError,
\* ValueError, django.db.Error.
OtherException(type) == Exc(type, None, type, 0, 0)

\* The classes of this module, each with its base classes (itself included).
Bases(type) ==
    IF type \in {"InvalidAPIKeyError", "RateLimitError",
                 "OpenRouterConnectionError", "OpenRouterAPIError"}
    THEN {type, "OpenRouterException", "Exception"}
    ELSE IF type = "OpenRouterException"
    THEN {type, "Exception"}
    ELSE {type, "Exception"}

isinstance(e, class) == class \in Bases(e.type)

(***************************************************************************)
(* The upstream: what requests.post can do (services.py:117-122).          *)
(***************************************************************************)
\* JSON null where text is expected.
null == <<None>>

EmptyDict == [k \in {} |-> None]

Choice(content) == [message |-> [role |-> "assistant", content |-> content]]

\* Bodies of a 200 answer that parse as JSON.
FullBody ==
    [choices |-> <<Choice(<<"o", "k">>)>>, model |-> "upstream/model",
     usage |-> [total_tokens |-> 25]]
NoChoicesBody ==
    [choices |-> <<>>, model |-> "upstream/model",
     usage |-> [total_tokens |-> 0]]
NullContentBody ==
    [choices |-> <<Choice(null)>>, model |-> "upstream/model",
     usage |-> [total_tokens |-> 25]]
ErrorBody == [error |-> [message |-> "upstream error message"]]

HttpResponse(status, parses, json, json_exc) ==
    [kind |-> "response", status_code |-> status, parses |-> parses,
     json |-> json, json_exc |-> json_exc]

\* What response.json() raises on a body that is no JSON: a subclass of
\* RequestException (requests >= 2.27) or a plain ValueError (older).
JsonExceptions == {"RequestException", "ValueError"}

\* No POST was made.
NoOutcome == [kind |-> None]

\* Every outcome of the one POST.
Outcomes ==
    {[kind |-> k] : k \in {"Timeout", "ConnectionError", "RequestException"}}
    \cup {HttpResponse(200, TRUE, b, None) :
            b \in {FullBody, EmptyDict, NoChoicesBody, NullContentBody}}
    \cup {HttpResponse(200, FALSE, EmptyDict, x) : x \in JsonExceptions}
    \cup {HttpResponse(c, TRUE, FullBody, None) : c \in {201}}
    \cup {HttpResponse(c, TRUE, ErrorBody, None) : c \in {401, 429, 500}}
    \cup {HttpResponse(c, FALSE, EmptyDict, "ValueError") : c \in {502}}

(***************************************************************************)
(* OpenRouterService (services.py).                                        *)
(***************************************************************************)
\* services.py:35  self.timeout
timeout == 60

NoPayload == [model |-> None, messages |-> <<>>]
NoResponse == [content |-> <<>>, model |-> None, usage |-> EmptyDict]

\* What a call of generate_response did: the exception it raised (or
\* NoException), the dict it returned, the POSTs it made and their payload.
Raise(e, n, sent) ==
    [raised |-> e, value |-> NoResponse, posts |-> n, payload |-> sent]
Return(v, sent) ==
    [raised |-> NoException, value |-> v, posts |-> 1, payload |-> sent]

\* The payload without the turns of the history that repeat the current
\* message.
build_payload_Deduplicates(msg, model, history) ==
    LET current == [role |-> "user", content |-> msg]
        IsOther(m) == m # current
    IN  [model |-> IF Falsy(model) THEN default_model ELSE model,
         messages |-> SelectSeq(history, IsOther) \o <<current>>]

\* services.py:86-103  the payload: history, then the current message.
build_payload(msg, model, history) ==
    [model |-> IF Falsy(model) THEN default_model ELSE model,
     messages |-> history \o <<[role |-> "user", content |-> msg]>>]

\* services.py:130-146  the 200 branch, on the parsed body.
on_success(data, model, sent) ==
    LET choices == Get(data, "choices", <<EmptyDict>>)
    IN  IF choices = <<>> THEN Raise(OtherException("IndexError"), 1, sent)
        ELSE
        LET content == Get(Get(choices[1], "message", EmptyDict),
                           "content", <<>>)
            usage   == Get(data, "usage", EmptyDict)
        IN  IF content = null THEN Raise(OtherException("TypeError"), 1, sent)
            ELSE Return([content |-> content,
                         model |-> Get(data, "model", model),
                         usage |-> usage], sent)

\* The API error is raised without the status code.
on_error_status_NoStatusCode(r, sent) ==
    LET error_message ==
            IF r.parses
            THEN IF "message" \in DOMAIN Get(r.json, "error", EmptyDict)
                 THEN [text |-> r.json.error.message, arg |-> 0]
                 ELSE [text |-> "API error: {}", arg |-> r.status_code]
            ELSE [text |-> "OpenRouter API error: HTTP {}",
                  arg |-> r.status_code]
    IN  Raise(OpenRouterAPIError(error_message.text, error_message.arg, 0),
              1, sent)

\* services.py:158-167  the branch of every other status.
on_error_status(r, sent) ==
    LET error_message ==
            IF r.parses
            THEN IF "message" \in DOMAIN Get(r.json, "error", EmptyDict)
                 THEN [text |-> r.json.error.message, arg |-> 0]
                 ELSE [text |-> "API error: {}", arg |-> r.status_code]
            ELSE [text |-> "OpenRouter API error: HTTP {}",
                  arg |-> r.status_code]
    IN  Raise(OpenRouterAPIError(error_message.text, error_message.arg,
                                 r.status_code), 1, sent)

\* The except clauses without the last one, "except RequestException".
on_transport_exception_NoLastClause(kind, sent) ==
    IF kind = "Timeout"
    THEN Raise(OpenRouterConnectionError(
                 "Request to OpenRouter timed out after {}s", timeout), 1, sent)
    ELSE IF kind = "ConnectionError"
    THEN Raise(OpenRouterConnectionError(
                 "Failed to connect to OpenRouter API.", 0), 1, sent)
    ELSE Raise(OtherException("RequestException"), 1, sent)

\* services.py:169-182  the except clauses around the POST.
on_transport_exception(kind, sent) ==
    IF kind = "Timeout"
    THEN Raise(OpenRouterConnectionError(
                 "Request to OpenRouter timed out after {}s", timeout), 1, sent)
    ELSE IF kind = "ConnectionError"
    THEN Raise(OpenRouterConnectionError(
                 "Failed to connect to OpenRouter API.", 0), 1, sent)
    ELSE Raise(OpenRouterConnectionError("Request failed: {}", 0), 1, sent)

\* The dispatch without the 401 branch.
on_response_No401(r, model, sent) ==
    IF r.status_code = 200
    THEN IF r.parses THEN on_success(r.json, model, sent)
         ELSE IF r.json_exc = "RequestException"
         THEN on_transport_exception("RequestException", sent)
         ELSE Raise(OtherException("ValueError"), 1, sent)
    ELSE IF r.status_code = 429
    THEN Raise(RateLimitError("OpenRouter rate limit exceeded."), 1, sent)
    ELSE on_error_status(r, sent)

\* services.py:129-167  the dispatch on response.status_code.
on_response(r, model, sent) ==
    IF r.status_code = 200
    THEN IF r.parses THEN on_success(r.json, model, sent)
         ELSE IF r.json_exc = "RequestException"
         THEN on_transport_exception("RequestException", sent)
         ELSE Raise(OtherException("ValueError"), 1, sent)
    ELSE IF r.status_code = 401
    THEN Raise(InvalidAPIKeyError("OpenRouter API key is invalid"), 1, sent)
    ELSE IF r.status_code = 429
    THEN Raise(RateLimitError("OpenRouter rate limit exceeded."), 1, sent)
    ELSE on_error_status(r, sent)

\* generate_response without the check of the key before the POST.
generate_response_NoKeyCheck(key, msg, model, history, outcome) ==
    LET sent == build_payload(msg, model, history)
    IN  IF outcome.kind = "response"
        THEN on_response(outcome, sent.model, sent)
        ELSE on_transport_exception(outcome.kind, sent)

\* OpenRouterService.generate_response, given what the POST does.
generate_response(key, msg, model, history, outcome) ==
    IF key = ""
    THEN Raise(InvalidAPIKeyError("OpenRouter API key is not configured."),
               0, NoPayload)
    ELSE LET sent == build_payload(msg, model, history)
         IN  IF outcome.kind = "response"
             THEN on_response(outcome, sent.model, sent)
             ELSE on_transport_exception(outcome.kind, sent)

(***************************************************************************)
(* ChatAPIView.post (views.py:155-288).                                    *)
(***************************************************************************)
\* rest_framework.status
HTTP_200_OK == 200
HTTP_400_BAD_REQUEST == 400
HTTP_429_TOO_MANY_REQUESTS == 429
HTTP_503_SERVICE_UNAVAILABLE == 503
\* What the framework answers when a handler lets an exception escape.
HTTP_500_INTERNAL_SERVER_ERROR == 500

Response(status, body) == [status |-> status, body |-> body]

NoHttpResponse == Response(0, EmptyDict)

\* str(e)
str(e) == [text |-> e.message, arg |-> e.arg]

\* views.py:164-174  the answer to a request that fails validation.
validation_response(data) ==
    Response(HTTP_400_BAD_REQUEST,
             [error |-> "Validation failed",
              detail |-> serializer_errors(data),
              code |-> "VALIDATION_ERROR"])

\* The except clauses without the last one, "except Exception".
handle_exception_NoCatchAll(e) ==
    IF isinstance(e, "InvalidAPIKeyError")
    THEN Response(HTTP_503_SERVICE_UNAVAILABLE,
                  [error |-> "Configuration error", detail |-> str(e),
                   code |-> e.code])
    ELSE IF isinstance(e, "RateLimitError")
    THEN Response(HTTP_429_TOO_MANY_REQUESTS,
                  [error |-> "Rate limit exceeded", detail |-> str(e),
                   code |-> e.code])
    ELSE IF isinstance(e, "OpenRouterConnectionError")
    THEN Response(HTTP_503_SERVICE_UNAVAILABLE,
                  [error |-> "Service temporarily unavailable",
                   detail |-> str(e), code |-> e.code])
    ELSE IF isinstance(e, "OpenRouterException")
    THEN Response(HTTP_503_SERVICE_UNAVAILABLE,
                  [error |-> "AI service error", detail |-> str(e),
                   code |-> e.code])
    ELSE Response(HTTP_500_INTERNAL_SERVER_ERROR, EmptyDict)

\* The except clauses with the base class first: "except OpenRouterException"
\* catches the rate limit too.
handle_exception_BaseClassFirst(e) ==
    IF isinstance(e, "OpenRouterException")
    THEN Response(HTTP_503_SERVICE_UNAVAILABLE,
                  [error |-> "AI service error", detail |-> str(e),
                   code |-> e.code])
    ELSE Response(HTTP_503_SERVICE_UNAVAILABLE,
                  [error |-> "An unexpected error occurred",
                   detail |-> [text |-> "Please try again later", arg |-> 0],
                   code |-> "INTERNAL_ERROR"])

\* views.py:229-288  the except clauses of post, first match first.
handle_exception(e) ==
    IF isinstance(e, "InvalidAPIKeyError")
    THEN Response(HTTP_503_SERVICE_UNAVAILABLE,
                  [error |-> "Configuration error", detail |-> str(e),
                   code |-> e.code])
    ELSE IF isinstance(e, "RateLimitError")
    THEN Response(HTTP_429_TOO_MANY_REQUESTS,
                  [error |-> "Rate limit exceeded", detail |-> str(e),
                   code |-> e.code])
    ELSE IF isinstance(e, "OpenRouterConnectionError")
    THEN Response(HTTP_503_SERVICE_UNAVAILABLE,
                  [error |-> "Service temporarily unavailable",
                   detail |-> str(e), code |-> e.code])
    ELSE IF isinstance(e, "OpenRouterException")
    THEN Response(HTTP_503_SERVICE_UNAVAILABLE,
                  [error |-> "AI service error", detail |-> str(e),
                   code |-> e.code])
    ELSE IF isinstance(e, "Exception")
    THEN Response(HTTP_503_SERVICE_UNAVAILABLE,
                  [error |-> "An unexpected error occurred",
                   detail |-> [text |-> "Please try again later", arg |-> 0],
                   code |-> "INTERNAL_ERROR"])
    ELSE Response(HTTP_500_INTERNAL_SERVER_ERROR, EmptyDict)

\* The answer that names the requested model whatever the upstream named.
success_response_RequestedModel(ai, model, sid, history) ==
    Response(HTTP_200_OK,
             [response |-> ai.content,
              model |-> model,
              session_id |-> sid,
              history |-> SerializeMany(history)])

\* views.py:222-227  the answer to a request that succeeded.
success_response(ai, model, sid, history) ==
    Response(HTTP_200_OK,
             [response |-> ai.content,
              model |-> Get(ai, "model", model),
              session_id |-> sid,
              history |-> SerializeMany(history)])

(***************************************************************************)
(* The store before the first request: a session "s1" of MaxPrior turns,   *)
(* a session "s2" one turn short of the context window, and one row with   *)
(* no session id (written through the admin site).  In "s1" the two turns  *)
(* at the edge of the context window were written within one clock unit.   *)
(* A session "s3" holds one assistant turn and no user turn (written       *)
(* through the admin site, within the clock unit of the last turn of       *)
(* "s2").                                                                  *)
(***************************************************************************)
SeedRole(i) == IF i % 2 = 1 THEN "user" ELSE "assistant"

SeedTimestamp(i) == IF i > MaxPrior - HistoryLimit THEN i - 1 ELSE i

SeedRows ==
    {ChatMessage(i, SeedRole(i), <<"p">> \o Decimal(i), default_model,
                 SeedTimestamp(i), "s1") : i \in 1..MaxPrior}
    \cup {ChatMessage(MaxPrior + j, SeedRole(j), <<"q">> \o Decimal(j),
                      default_model, MaxPrior + j, "s2") :
            j \in 1..(HistoryLimit - 1)}
    \cup {ChatMessage(MaxPrior + HistoryLimit, "system", <<"s", "y", "s">>,
                      default_model, MaxPrior + HistoryLimit, None)}
    \cup {ChatMessage(MaxPrior + HistoryLimit + 1, "assistant",
                      <<"w", "e", "l", "c", "o", "m", "e">>, default_model,
                      MaxPrior + HistoryLimit - 1, "s3")}

(***************************************************************************)
(* What clients send.                                                      *)
(***************************************************************************)
MessageInputs == {<<>>, <<" ", "\t">>, <<" ", "h", "i", "\t">>}
ModelInputs == {"", "client/model"}
\* A client names a session of its own, or one a response named to it.
SessionInputs == {"", "s1", "s2"} \cup {UUIDs[i] : i \in 1..issued}

RequestKeys == {"message", "model_name", "session_id"}

\* request.data: a JSON object holding any of the three keys.
RequestBodies ==
    { [k \in K |-> [message |-> m, model_name |-> mn, session_id |-> s][k]] :
        m \in MessageInputs, mn \in ModelInputs, s \in SessionInputs,
        K \in SUBSET RequestKeys }

\* The upstream outcomes and the requests of a run.  A run whose requests
\* come one after the other explores every request body and every outcome;
\* a run whose requests overlap explores these.
OverlapBodies ==
    {[message |-> <<"h", "i">>, session_id |-> "s1"],
     [message |-> <<"h", "i">>]}
OverlapOutcomes ==
    {HttpResponse(200, TRUE, FullBody, None),
     HttpResponse(429, TRUE, ErrorBody, None)}

\* views.py:80  first_message.content[:50]
TitleLimit == 50

\* A message one character longer than a session title may be.
LongMessage == [i \in 1..(TitleLimit + 1) |-> "x"]

\* The requests and the upstream outcomes of a run in which the GET endpoints
\* are in use.
ReadingBodies ==
    {[message |-> <<"h", "i">>, session_id |-> "s1"],
     [message |-> LongMessage],
     [message |-> SubSeq(LongMessage, 1, TitleLimit), session_id |-> ""],
     [session_id |-> "s1"]}
ReadingOutcomes ==
    {HttpResponse(200, TRUE, FullBody, None),
     HttpResponse(500, TRUE, ErrorBody, None)}

BodiesOf(w) ==
    IF w = "serial" THEN RequestBodies
    ELSE IF w = "overlapping" THEN OverlapBodies
    ELSE ReadingBodies
OutcomesOf(w) ==
    IF w = "serial" THEN Outcomes
    ELSE IF w = "overlapping" THEN OverlapOutcomes
    ELSE ReadingOutcomes

(***************************************************************************)
(* The state machine.                                                      *)
(***************************************************************************)
\* The locals of post before the request is read.
EmptyFrame ==
    [data |-> EmptyDict, message |-> <<>>, model_name |-> None,
     session_id |-> None, generated |-> FALSE, user_message |-> 0,
     conversation_history |-> <<>>, posts |-> 0, payload |-> NoPayload,
     outcome |-> NoOutcome, raised |-> NoException,
     ai_response |-> NoResponse, assistant_message |-> 0]

\* No call of post returns in this state.
NotReturned ==
    [worker |-> None, frame |-> EmptyFrame, response |-> NoHttpResponse]

\* No GET handler returns in this state.
NoRead ==
    [op |-> None, params |-> EmptyDict, response |-> NoHttpResponse,
     previous |-> NoHttpResponse]

Init ==
    /\ store = SeedRows
    /\ clock = MaxPrior + HistoryLimit
    /\ api_key \in {"", "sk-or-key"}
    /\ issued = 0
    /\ pc = [p \in Procs |-> "idle"]
    /\ frame = [p \in Procs |-> EmptyFrame]
    /\ finished = NotReturned
    /\ workload \in {"serial", "overlapping"}
    /\ written = [p \in Procs |-> {}]
    /\ read = NoRead

\* post returns: the response goes to the client and the locals are gone.
Return_(p, f, r) ==
    /\ finished' = [worker |-> p, frame |-> f, response |-> r]
    /\ frame' = [frame EXCEPT ![p] = EmptyFrame]
    /\ pc' = [pc EXCEPT ![p] = "returned"]

\* views.py:176-179  the locals once validation has passed.
resolved_frame(data, v, uuid) ==
    [EmptyFrame EXCEPT !.data = data,
                       !.message = v.message,
                       !.model_name = resolve_model_name(v),
                       !.session_id = resolve_session_id(v, uuid),
                       !.generated = Falsy(v.session_id)]

\* Worker p is next to accept a request: the workers before it have
\* accepted theirs and, in a serial run, have returned.
Turn(p) ==
    \A i, j \in 1..Len(Workers) :
        (i < j /\ Workers[j] = p) =>
            /\ pc[Workers[i]] # "idle"
            /\ workload # "overlapping" => pc[Workers[i]] = "returned"

\* views.py:161-184  a worker takes a request: validation, and the
\* resolution of model_name and session_id.
Validate(p, data) ==
    /\ read' = NoRead
    /\ pc[p] = "idle"
    /\ Turn(p)
    /\ UNCHANGED <<store, clock, api_key, workload, written>>
    /\ IF ~is_valid(data)
       THEN /\ Return_(p, [EmptyFrame EXCEPT !.data = data],
                       validation_response(data))
            /\ UNCHANGED issued
       ELSE LET f == resolved_frame(data, validated_data(data),
                                    UUIDs[issued + 1])
            IN  /\ frame' = [frame EXCEPT ![p] = f]
                /\ issued' = IF f.generated THEN issued + 1 ELSE issued
                /\ pc' = [pc EXCEPT ![p] = "persist_user"]
                /\ finished' = NotReturned

\* views.py:188-194  the user turn is written.  The clock has moved on since
\* the last write, or not yet.
PersistUserTurn(p) ==
    /\ read' = NoRead
    /\ pc[p] = "persist_user"
    /\ \E d \in {0, 1} :
         /\ clock' = clock + d
         /\ store' = objects_create(store, "user", frame[p].message,
                                    frame[p].model_name, frame[p].session_id,
                                    clock + d)
    /\ frame' = [frame EXCEPT ![p].user_message = NextId(store)]
    /\ written' = [written EXCEPT ![p] = @ \cup {NextId(store)}]
    /\ pc' = [pc EXCEPT ![p] = "build_context"]
    /\ finished' = NotReturned
    /\ UNCHANGED <<api_key, issued, workload>>

\* views.py:197  the context window is read.
BuildContext(p) ==
    /\ read' = NoRead
    /\ pc[p] = "build_context"
    /\ \E h \in get_conversation_history(store, frame[p].session_id,
                                         frame[p].user_message) :
         frame' = [frame EXCEPT ![p].conversation_history = h]
    /\ pc' = [pc EXCEPT ![p] = "call_upstream"]
    /\ finished' = NotReturned
    /\ UNCHANGED <<store, clock, api_key, issued, workload, written>>

\* views.py:229-288  the call raised: post answers the failure and writes
\* nothing.
ReturnFailure_SavesAssistantTurn(p, f) ==
    /\ Return_(p, [f EXCEPT !.assistant_message = NextId(store)],
               handle_exception(f.raised))
    /\ store' = objects_create(store, "assistant", <<"e", "r", "r">>,
                               f.model_name, f.session_id, clock)
    /\ written' = [written EXCEPT ![p] = @ \cup {NextId(store)}]

ReturnFailure(p, f) ==
    /\ Return_(p, f, handle_exception(f.raised))
    /\ UNCHANGED <<store, written>>

\* views.py:200-204  the upstream is called.  A POST takes time: the clock
\* has moved on when it returns.
CallUpstream(p, outcome) ==
    /\ read' = NoRead
    /\ pc[p] = "call_upstream"
    /\ LET r == generate_response(api_key, frame[p].message,
                                  frame[p].model_name,
                                  frame[p].conversation_history, outcome)
           f == [frame[p] EXCEPT !.posts = r.posts, !.payload = r.payload,
                                 !.outcome = IF r.posts = 0 THEN NoOutcome
                                             ELSE outcome,
                                 !.raised = r.raised, !.ai_response = r.value]
       IN  /\ clock' = clock + r.posts
           /\ IF r.raised = NoException
              THEN /\ frame' = [frame EXCEPT ![p] = f]
                   /\ pc' = [pc EXCEPT ![p] = "persist_assistant"]
                   /\ finished' = NotReturned
                   /\ UNCHANGED <<store, written>>
              ELSE ReturnFailure(p, f)
    /\ UNCHANGED <<api_key, issued, workload>>

\* The assistant turn is written without the session id.
PersistAssistantTurn_NoSession(p) ==
    /\ read' = NoRead
    /\ pc[p] = "persist_assistant"
    /\ store' = objects_create(store, "assistant",
                               frame[p].ai_response.content,
                               Get(frame[p].ai_response, "model",
                                   frame[p].model_name),
                               None, clock)
    /\ frame' = [frame EXCEPT ![p].assistant_message = NextId(store)]
    /\ written' = [written EXCEPT ![p] = @ \cup {NextId(store)}]
    /\ pc' = [pc EXCEPT ![p] = "read_history"]
    /\ finished' = NotReturned
    /\ UNCHANGED <<clock, api_key, issued, workload>>

\* The assistant turn is written as the answer to the session's last turn
\* as this request saw it: what the session gained since this request's
\* user turn is replaced.
PersistAssistantTurn_ReplacesSessionTail(p) ==
    /\ read' = NoRead
    /\ pc[p] = "persist_assistant"
    /\ store' = {m \in store : \/ m.session_id # frame[p].session_id
                               \/ m.id <= frame[p].user_message}
                \cup {ChatMessage(NextId(store), "assistant",
                                  frame[p].ai_response.content,
                                  Get(frame[p].ai_response, "model",
                                      frame[p].model_name),
                                  clock, frame[p].session_id)}
    /\ frame' = [frame EXCEPT ![p].assistant_message = NextId(store)]
    /\ written' = [written EXCEPT ![p] = @ \cup {NextId(store)}]
    /\ pc' = [pc EXCEPT ![p] = "read_history"]
    /\ finished' = NotReturned
    /\ UNCHANGED <<clock, api_key, issued, workload>>

\* views.py:207-214  the assistant turn is written.
PersistAssistantTurn(p) ==
    /\ read' = NoRead
    /\ pc[p] = "persist_assistant"
    /\ store' = objects_create(store, "assistant",
                               frame[p].ai_response.content,
                               Get(frame[p].ai_response, "model",
                                   frame[p].model_name),
                               frame[p].session_id, clock)
    /\ frame' = [frame EXCEPT ![p].assistant_message = NextId(store)]
    /\ written' = [written EXCEPT ![p] = @ \cup {NextId(store)}]
    /\ pc' = [pc EXCEPT ![p] = "read_history"]
    /\ finished' = NotReturned
    /\ UNCHANGED <<clock, api_key, issued, workload>>

\* views.py:217-227  the session is read back and the 200 is returned.
Respond(p) ==
    /\ read' = NoRead
    /\ pc[p] = "read_history"
    /\ \E h \in order_by_timestamp(filter_session(store, frame[p].session_id)) :
         Return_(p, frame[p],
                 success_response(frame[p].ai_response, frame[p].model_name,
                                  frame[p].session_id, h))
    /\ UNCHANGED <<store, clock, api_key, issued, workload, written>>

\* Any store access of the try block can fail (django.db.Error); the
\* exception reaches the except clauses of post.
StoreFault(p) ==
    /\ read' = NoRead
    /\ pc[p] \in {"persist_user", "build_context", "persist_assistant",
                  "read_history"}
    /\ Return_(p, [frame[p] EXCEPT !.raised = OtherException("DatabaseError")],
               handle_exception(OtherException("DatabaseError")))
    /\ UNCHANGED <<store, clock, api_key, issued, workload, written>>

(***************************************************************************)
(* The GET endpoints.                                                      *)
(***************************************************************************)
\* Query strings of GET /api/chat/history/.
HistoryQueries ==
    {EmptyDict} \cup
    {[session_id |-> sid] :
        sid \in {"", "s1", "s3", "no-such-session"}
                \cup {UUIDs[i] : i \in 1..issued}}

\* views.py:110-114  the answer to a query without session_id.
missing_session_response ==
    Response(HTTP_400_BAD_REQUEST,
             [error |-> "session_id is required", code |-> "VALIDATION_ERROR"])

\* The history query with the newest message first.
history_responses_NewestFirst(rows, params) ==
    LET session_id == Get(params, "session_id", None)
    IN  IF Falsy(session_id) THEN {missing_session_response}
        ELSE {Response(HTTP_200_OK,
                       [session_id |-> session_id,
                        messages |-> SerializeMany(messages)]) :
                messages \in order_by_timestamp_desc(
                                 filter_session(rows, session_id))}

\* ChatHistoryAPIView.get: every response the call can return.
history_responses(rows, params) ==
    LET session_id == Get(params, "session_id", None)
    IN  IF Falsy(session_id) THEN {missing_session_response}
        ELSE {Response(HTTP_200_OK,
                       [session_id |-> session_id,
                        messages |-> SerializeMany(messages)]) :
                messages \in order_by_timestamp(filter_session(rows,
                                                               session_id))}

\* A GET handler returns: the response goes to the client.  The response
\* of the same query is kept when that query returned one step earlier.
Reply(op, params, r) ==
    read' = [op |-> op, params |-> params, response |-> r,
             previous |->
                 IF /\ read.op = op
                    /\ Get(read.params, "session_id", None) =
                         Get(params, "session_id", None)
                 THEN read.response ELSE NoHttpResponse]

\* views.py:106-122  GET /api/chat/history/
ChatHistory(params) ==
    /\ workload = "reading"
    /\ \E r \in history_responses(store, params) : Reply("history", params, r)
    /\ finished' = NotReturned
    /\ UNCHANGED <<store, clock, api_key, issued, pc, frame, workload, written>>

MaxOf(S) == CHOOSE x \in S : \A y \in S : y <= x
MinOf(S) == CHOOSE x \in S : \A y \in S : x <= y

\* views.py:54-60  values('session_id').annotate(Max, Min): one group per
\* distinct session_id, None included.
session_groups(rows) ==
    { [session_id |-> sid,
       last_message_at |-> MaxOf({m.timestamp : m \in filter_session(rows, sid)}),
       first_message_at |-> MinOf({m.timestamp : m \in filter_session(rows, sid)})] :
      sid \in {m.session_id : m \in rows} }

\* views.py:61  order_by('-last_message_at'): groups with equal
\* last_message_at come in any order.
RECURSIVE order_by_last_message_at_desc(_)
order_by_last_message_at_desc(groups) ==
    IF groups = {} THEN {<<>>}
    ELSE LET t == MaxOf({g.last_message_at : g \in groups})
             G == {g \in groups : g.last_message_at = t}
         IN  {p \o r : p \in Perms(G),
                       r \in order_by_last_message_at_desc(groups \ G)}

\* The title cut to its limit, without the dots.
title_of_NoDots(content) == SubSeq(content, 1, Min(Len(content), TitleLimit))

\* views.py:78-82  the title of a session, from its first user message.
title_of(content) ==
    IF Len(content) > TitleLimit
    THEN SubSeq(content, 1, TitleLimit) \o <<".", ".", ".">>
    ELSE content

\* views.py:78  title = "New Chat"
NewChat == <<"N", "e", "w", " ", "C", "h", "a", "t">>

\* views.py:71-82  the titles the listing can give a session: that of a
\* user message no other user message of the session precedes.
session_titles(rows, sid) ==
    LET users == {m \in filter_session(rows, sid) : m.role = "user"}
    IN  IF users = {} THEN {NewChat}
        ELSE {title_of(order[1].content) : order \in order_by_timestamp(users)}

\* The loop over the groups without "if not session_id: continue".
RECURSIVE session_entries_KeepsNull(_, _)
session_entries_KeepsNull(rows, sessions) ==
    IF sessions = <<>> THEN {<<>>}
    ELSE LET session == Head(sessions)
         IN  { <<[session_id |-> session.session_id,
                  title |-> title,
                  last_message_at |-> session.last_message_at,
                  message_count |->
                      Cardinality(filter_session(rows, session.session_id))]>>
               \o r : title \in session_titles(rows, session.session_id),
                      r \in session_entries_KeepsNull(rows, Tail(sessions)) }

\* views.py:65-92  the loop over the groups.
RECURSIVE session_entries(_, _)
session_entries(rows, sessions) ==
    IF sessions = <<>> THEN {<<>>}
    ELSE LET session == Head(sessions)
             rest == session_entries(rows, Tail(sessions))
         IN  IF Falsy(session.session_id) THEN rest
             ELSE { <<[session_id |-> session.session_id,
                       title |-> title,
                       last_message_at |-> session.last_message_at,
                       message_count |->
                           Cardinality(filter_session(rows,
                                                      session.session_id))]>>
                    \o r : title \in session_titles(rows, session.session_id),
                           r \in rest }

\* SessionListAPIView.get: every response the call can return.
session_list_responses(rows) ==
    {Response(HTTP_200_OK, result) :
        result \in UNION {session_entries(rows, sessions) :
                            sessions \in order_by_last_message_at_desc(
                                             session_groups(rows))}}

\* views.py:50-94  GET /api/chat/sessions/
SessionList ==
    /\ workload = "reading"
    /\ \E r \in session_list_responses(store) : Reply("sessions", EmptyDict, r)
    /\ finished' = NotReturned
    /\ UNCHANGED <<store, clock, api_key, issued, pc, frame, workload, written>>

Next ==
    \E p \in Procs :
        \/ \E data \in BodiesOf(workload) : Validate(p, data)
        \/ PersistUserTurn(p)
        \/ BuildContext(p)
        \/ \E outcome \in OutcomesOf(workload) : CallUpstream(p, outcome)
        \/ PersistAssistantTurn(p)
        \/ Respond(p)
        \/ StoreFault(p)

Spec == Init /\ [][Next]_vars

(***************************************************************************)
(* The three endpoints together: send requests one after the other, with   *)
(* GET requests at any moment, also between two steps of a send.           *)
(***************************************************************************)
ReadInit ==
    /\ store = SeedRows
    /\ clock = MaxPrior + HistoryLimit
    /\ api_key = "sk-or-key"
    /\ issued = 0
    /\ pc = [p \in Procs |-> "idle"]
    /\ frame = [p \in Procs |-> EmptyFrame]
    /\ finished = NotReturned
    /\ workload = "reading"
    /\ written = [p \in Procs |-> {}]
    /\ read = NoRead

ReadNext ==
    \/ Next
    \/ \E params \in HistoryQueries : ChatHistory(params)
    \/ SessionList

ReadSpec == ReadInit /\ [][ReadNext]_vars

(***************************************************************************)
(* The three endpoints on a new database: the table is empty and every row *)
(* comes from a send request.                                              *)
(***************************************************************************)
FreshInit ==
    /\ store = {}
    /\ clock = 0
    /\ api_key = "sk-or-key"
    /\ issued = 0
    /\ pc = [p \in Procs |-> "idle"]
    /\ frame = [p \in Procs |-> EmptyFrame]
    /\ finished = NotReturned
    /\ workload = "reading"
    /\ written = [p \in Procs |-> {}]
    /\ read = NoRead

FreshSpec == FreshInit /\ [][ReadNext]_vars

(***************************************************************************)
(* Vocabulary of the properties.                                           *)
(***************************************************************************)
\* A call of post returns in this state.
Returned == finished.worker # None

\* The request of frame f passed validation.
PassedValidation(f) == f.session_id # None

\* A store access of the request failed.
StoreFailed(f) == f.raised.type = "DatabaseError"

\* generate_response was called and raised.
UpstreamFailed(f) == f.raised.type \notin {None, "DatabaseError"}

\* generate_response was called and returned, and no store access failed.
UpstreamSucceeded(f) == f.posts = 1 /\ f.raised = NoException

\* The code of a failure response (None for a body without one).
CodeOf(r) == Get(r.body, "code", None)

RowsWithId(ids) == {m \in store : m.id \in ids}

\* Every row of the store is a row the store held at first or a row that
\* exactly one request created, and no two rows share an id.
AllRowsAccounted ==
    /\ {m.id : m \in store} =
         {m.id : m \in SeedRows} \cup UNION {written[p] : p \in Procs}
    /\ Cardinality({m.id : m \in store}) = Cardinality(store)
    /\ SeedRows \subseteq store
    /\ \A p \in Procs : written[p] \cap {m.id : m \in SeedRows} = {}
    /\ \A p, q \in Procs : p # q => written[p] \cap written[q] = {}

\* The message of request body d is missing, empty or whitespace only.
BlankMessage(d) ==
    \/ "message" \notin DOMAIN d
    \/ \A i \in 1..Len(d.message) : d.message[i] \in Whitespace

FailureCodes ==
    {"VALIDATION_ERROR", "INVALID_API_KEY", "RATE_LIMIT", "CONNECTION_ERROR",
     "API_ERROR", "INTERNAL_ERROR"}

(***************************************************************************)
(* C1.  A send request with a valid message whose upstream call succeeds   *)
(* (the store accepting its writes) returns 200 having created exactly     *)
(* two rows under its resolved session id, a user turn and then an         *)
(* assistant turn; the history it returns is as long as the session is in  *)
(* the store and lists the user turn before the assistant turn.            *)
(***************************************************************************)
C1_SuccessPersistsUserThenAssistant ==
    (Returned /\ UpstreamSucceeded(finished.frame)) =>
        LET f == finished.frame
            h == finished.response.body.history
            ids == written[finished.worker]
        IN  /\ finished.response.status = 200
            /\ AllRowsAccounted
            /\ ids = {f.user_message, f.assistant_message}
            /\ Cardinality(RowsWithId(ids)) = 2
            /\ \E u, a \in RowsWithId(ids) :
                 /\ u.id = f.user_message /\ u.role = "user"
                 /\ a.id = f.assistant_message /\ a.role = "assistant"
                 /\ u.session_id = f.session_id
                 /\ a.session_id = f.session_id
                 /\ u.id < a.id
                 /\ u.timestamp < a.timestamp
                 /\ \E i, j \in 1..Len(h) :
                      i < j /\ h[i].id = u.id /\ h[j].id = a.id
            /\ finished.response.body.session_id = f.session_id
            /\ Len(h) = Cardinality(filter_session(store, f.session_id))

\* A request on the seeded session "s1" has returned 200 with the history.
C1_Witness ==
    /\ Returned
    /\ finished.response.status = 200
    /\ finished.frame.session_id = "s1"
    /\ Len(finished.response.body.history) >= MaxPrior + 2

(***************************************************************************)
(* C2.  Once a request has passed validation its user turn is written and  *)
(* stays written whatever happens next, and when the upstream call fails   *)
(* in any way the request has created exactly one row, the user turn, and  *)
(* no assistant turn.                                                      *)
(***************************************************************************)
C2_FailurePersistsOnlyUserTurn ==
    (Returned /\ PassedValidation(finished.frame)) =>
        LET f == finished.frame
            ids == written[finished.worker]
        IN  /\ AllRowsAccounted
            /\ (~StoreFailed(f) \/ f.user_message # 0) =>
                 \E u \in store :
                     /\ u.id = f.user_message /\ u.role = "user"
                     /\ u.session_id = f.session_id /\ u.content = f.message
            /\ UpstreamFailed(f) =>
                 /\ ids = {f.user_message}
                 /\ f.assistant_message = 0
                 /\ \A m \in RowsWithId(ids) : m.role # "assistant"
                 /\ finished.response.status # 200

\* The upstream answered 200 with no choices: an unclassified exception.
C2_Witness ==
    /\ Returned
    /\ finished.frame.raised.type = "IndexError"
    /\ Cardinality(written[finished.worker]) = 1

(***************************************************************************)
(* C3.  A request whose message is missing, empty or whitespace only is    *)
(* answered 400 VALIDATION_ERROR; it creates no row and makes no POST.     *)
(***************************************************************************)
C3_BlankMessageRejected ==
    (Returned /\ BlankMessage(finished.frame.data)) =>
        /\ finished.response.status = 400
        /\ CodeOf(finished.response) = "VALIDATION_ERROR"
        /\ written[finished.worker] = {}
        /\ finished.frame.posts = 0
        /\ finished.frame.user_message = 0
        /\ AllRowsAccounted

\* A whitespace-only message has been answered.
C3_Witness ==
    /\ Returned
    /\ "message" \in DOMAIN finished.frame.data
    /\ finished.frame.data.message = <<" ", "\t">>
    /\ finished.response.status = 400

(***************************************************************************)
(* C4.  Every return of post is a 200 or a structured failure whose status *)
(* is 400, 429 or 503, never 500, and whose code is one of the six codes.  *)
(***************************************************************************)
C4_NoFaultEscapes ==
    Returned =>
        LET r == finished.response
        IN  /\ r.status \in {200, 400, 429, 503}
            /\ r.status # 200 =>
                 /\ {"error", "detail", "code"} \subseteq DOMAIN r.body
                 /\ CodeOf(r) \in FailureCodes

\* A store access failed and the request was answered 503 INTERNAL_ERROR.
C4_Witness ==
    /\ Returned
    /\ StoreFailed(finished.frame)
    /\ finished.response.status = 503
    /\ CodeOf(finished.response) = "INTERNAL_ERROR"

(***************************************************************************)
(* C5.  With no credential configured, or on a 401 from the upstream, the  *)
(* request is answered 503 INVALID_API_KEY.                                *)
(***************************************************************************)
C5_InvalidKeyIs503 ==
    (Returned /\ PassedValidation(finished.frame)
              /\ ~StoreFailed(finished.frame)
              /\ \/ api_key = ""
                 \/ /\ finished.frame.outcome.kind = "response"
                    /\ finished.frame.outcome.status_code = 401) =>
        /\ finished.response.status = 503
        /\ CodeOf(finished.response) = "INVALID_API_KEY"

\* The upstream answered 401.
C5_Witness ==
    /\ Returned
    /\ finished.frame.outcome.kind = "response"
    /\ finished.frame.outcome.status_code = 401
    /\ CodeOf(finished.response) = "INVALID_API_KEY"

\* The upstream answered the POST of frame f with status code c.
Answered(f, c) ==
    f.outcome.kind = "response" /\ f.outcome.status_code = c

\* The POST of frame f raised inside requests: no response was received.
TransportFailed(f) ==
    f.outcome.kind \in {"Timeout", "ConnectionError", "RequestException"}

(***************************************************************************)
(* C6.  A 429 from the upstream is answered 429 RATE_LIMIT, and of the     *)
(* failures of the upstream call it is the only one answered 429: every    *)
(* other one is answered 503.                                              *)
(***************************************************************************)
C6_OnlyRateLimitIs429 ==
    (Returned /\ UpstreamFailed(finished.frame)) =>
        IF Answered(finished.frame, 429)
        THEN /\ finished.response.status = 429
             /\ CodeOf(finished.response) = "RATE_LIMIT"
        ELSE /\ finished.response.status = 503
             /\ CodeOf(finished.response) # "RATE_LIMIT"

\* The upstream answered 429 and the request was answered 429.
C6_Witness ==
    /\ Returned
    /\ Answered(finished.frame, 429)
    /\ finished.response.status = 429

(***************************************************************************)
(* C7.  A POST that times out, cannot connect or fails in requests in any  *)
(* other way is answered 503 CONNECTION_ERROR.                             *)
(***************************************************************************)
C7_TransportFailureIs503 ==
    (Returned /\ TransportFailed(finished.frame)) =>
        /\ finished.frame.raised.type = "OpenRouterConnectionError"
        /\ finished.response.status = 503
        /\ CodeOf(finished.response) = "CONNECTION_ERROR"

\* A POST failed with a RequestException that is neither a timeout nor a
\* connection error.
C7_Witness ==
    /\ Returned
    /\ finished.frame.outcome.kind = "RequestException"
    /\ CodeOf(finished.response) = "CONNECTION_ERROR"

(***************************************************************************)
(* C8.  An upstream status outside 2xx other than 401 and 429 raises       *)
(* OpenRouterAPIError carrying that status, and the request is answered    *)
(* 503 API_ERROR.                                                          *)
(***************************************************************************)
C8_OtherStatusIsApiError ==
    (Returned /\ finished.frame.outcome.kind = "response"
              /\ finished.frame.outcome.status_code \notin 200..299
              /\ finished.frame.outcome.status_code \notin {401, 429}) =>
        /\ finished.frame.raised.type = "OpenRouterAPIError"
        /\ finished.frame.raised.status_code =
             finished.frame.outcome.status_code
        /\ finished.response.status = 503
        /\ CodeOf(finished.response) = "API_ERROR"

\* The upstream answered 502 with a body that is not JSON.
C8_Witness ==
    /\ Returned
    /\ Answered(finished.frame, 502)
    /\ ~finished.frame.outcome.parses
    /\ finished.frame.raised.status_code = 502

\* o lists every row of rows once, oldest first.
IsAscendingEnumeration(o, rows) ==
    /\ Len(o) = Cardinality(rows)
    /\ {o[i] : i \in 1..Len(o)} = rows
    /\ \A i, j \in 1..Len(o) : i < j => o[i].timestamp <= o[j].timestamp

\* h is the context window of the request that wrote row uid in session
\* sid: the last min(n, 10) of the n other rows of the session, listed
\* oldest first, as role and content.
IsContextWindow(h, rows, sid, uid) ==
    LET prior == {m \in rows : m.session_id = sid /\ m.id # uid}
        n == Cardinality(prior)
        k == Min(n, HistoryLimit)
    IN  /\ Len(h) = k
        /\ \E o \in order_by_timestamp(prior) :
             /\ IsAscendingEnumeration(o, prior)
             /\ \A i \in 1..k :
                  h[i] = [role |-> o[n - k + i].role,
                          content |-> o[n - k + i].content]

(***************************************************************************)
(* C9.  The history handed to the upstream client is the min(n, 10) most   *)
(* recent of the n messages the session held before the request's user     *)
(* turn, oldest first, as role and content, without that user turn.        *)
(***************************************************************************)
C9_ContextWindow ==
    [][\A p \in Procs :
         (pc[p] = "build_context" /\ pc'[p] = "call_upstream") =>
             IsContextWindow(frame'[p].conversation_history, store,
                             frame[p].session_id, frame[p].user_message)]_vars

\* A request on a session of more than ten prior messages is about to call
\* the upstream with ten of them.
C9_Witness ==
    \E p \in Procs :
        /\ pc[p] = "call_upstream"
        /\ Len(frame[p].conversation_history) = HistoryLimit
        /\ Cardinality(exclude_id(filter_session(store, frame[p].session_id),
                                  frame[p].user_message)) > HistoryLimit

\* The request body d names a session.
NamesSession(d) == "session_id" \in DOMAIN d /\ d.session_id # ""

\* The rows of worker p's request carry session id sid.
WritesUnder(p, sid) == \A m \in RowsWithId(written[p]) : m.session_id = sid

(***************************************************************************)
(* C10.  Every row a request writes carries its resolved session id: the   *)
(* session_id of the request when it names one, else a generated id that   *)
(* no row of the store and no other request carries at that moment.        *)
(***************************************************************************)
C10_ResolvedSessionId ==
    /\ [](\A p \in Procs :
            /\ pc[p] \notin {"idle", "returned"} =>
                 WritesUnder(p, frame[p].session_id)
            /\ finished.worker = p =>
                 WritesUnder(p, finished.frame.session_id))
    /\ [][\A p \in Procs :
            (pc[p] = "idle" /\ pc'[p] = "persist_user") =>
                IF NamesSession(frame'[p].data)
                THEN frame'[p].session_id = frame'[p].data.session_id
                ELSE /\ \A m \in store :
                          m.session_id # frame'[p].session_id
                     /\ \A q \in Procs \ {p} :
                          frame[q].session_id # frame'[p].session_id]_vars

\* Two requests naming the same session have both written under it.
C10_Witness ==
    /\ \A p \in Procs : written[p] # {} /\ WritesUnder(p, "s1")
    /\ Returned
    /\ NamesSession(finished.frame.data)

\* GET /api/chat/history/ returns in this state.
HistoryReturned == read.op = "history"

\* The same history query returned one step earlier: no write lies between
\* the two calls.
HistoryRepeated == HistoryReturned /\ read.previous # NoHttpResponse

(***************************************************************************)
(* C11.  Two calls of the history query for the same session_id with no    *)
(* write between them return the same messages in the same order, also     *)
(* when two messages of the session share a timestamp.                     *)
(***************************************************************************)
C11_HistoryReadsAgree ==
    HistoryRepeated => read.response = read.previous

\* The session_id of the query string of the GET that returns here.
QueriedSession == Get(read.params, "session_id", None)

\* msgs lists, oldest first, every row of the store under session sid once
\* and nothing else, each with all its fields.
IsHistoryOf(msgs, sid) ==
    /\ Len(msgs) = Cardinality({m \in store : m.session_id = sid})
    /\ {msgs[i] : i \in 1..Len(msgs)} = {m \in store : m.session_id = sid}
    /\ \A i, j \in 1..Len(msgs) :
         i < j => msgs[i].timestamp <= msgs[j].timestamp

(***************************************************************************)
(* C12.  The history query answers 200 with exactly the rows stored under  *)
(* the session_id it names, oldest first, and answers 400 VALIDATION_ERROR *)
(* when the query names none (the parameter is missing or empty).          *)
(***************************************************************************)
C12_HistoryIsTheSession ==
    HistoryReturned =>
        IF QueriedSession \in {None, ""}
        THEN /\ read.response.status = 400
             /\ CodeOf(read.response) = "VALIDATION_ERROR"
        ELSE /\ read.response.status = 200
             /\ read.response.body.session_id = QueriedSession
             /\ IsHistoryOf(read.response.body.messages, QueriedSession)

\* The history of "s1" is read after a send request has added to it.
C12_Witness ==
    /\ HistoryReturned
    /\ QueriedSession = "s1"
    /\ Len(read.response.body.messages) > MaxPrior
    /\ \E p \in Procs : written[p] # {}

\* GET /api/chat/sessions/ returns in this state.
SessionsReturned == read.op = "sessions"

\* The rows of the store under session sid.
RowsOf(sid) == {m \in store : m.session_id = sid}

\* The session ids of the store, without None.
StoredSessions == {m.session_id : m \in store} \ {None}

(***************************************************************************)
(* C13.  The session listing holds one entry for each session_id of the    *)
(* store and none for rows without one; an entry counts the rows of its    *)
(* session and carries their greatest timestamp; the entries come by       *)
(* last_message_at, greatest first.                                        *)
(***************************************************************************)
C13_ListingIsTheSessions ==
    SessionsReturned =>
        LET result == read.response.body
        IN  /\ read.response.status = 200
            /\ Len(result) = Cardinality(StoredSessions)
            /\ {result[i].session_id : i \in 1..Len(result)} = StoredSessions
            /\ \A i \in 1..Len(result) :
                 LET rows == RowsOf(result[i].session_id)
                 IN  /\ result[i].message_count = Cardinality(rows)
                     /\ \E m \in rows : m.timestamp = result[i].last_message_at
                     /\ \A m \in rows : m.timestamp <= result[i].last_message_at
            /\ \A i, j \in 1..Len(result) :
                 i < j => result[i].last_message_at >= result[j].last_message_at

\* The listing is returned while the store holds a row without session id,
\* a session a send request started, and two sessions whose last messages
\* share a timestamp.
C13_Witness ==
    /\ SessionsReturned
    /\ \E m \in store : m.session_id = None
    /\ \E i \in 1..Len(read.response.body) :
         read.response.body[i].session_id = UUIDs[1]
    /\ \E i, j \in 1..Len(read.response.body) :
         /\ i # j
         /\ read.response.body[i].last_message_at =
              read.response.body[j].last_message_at

\* title is the title of a session whose first user message reads content.
IsTitleOf(title, content) ==
    IF Len(content) <= TitleLimit
    THEN title = content
    ELSE /\ Len(title) = TitleLimit + 3
         /\ \A i \in 1..TitleLimit : title[i] = content[i]
         /\ \A i \in 1..3 : title[TitleLimit + i] = "."

\* The user messages of session sid that no user message of it precedes.
EarliestUserMessages(sid) ==
    {m \in RowsOf(sid) :
        /\ m.role = "user"
        /\ \A n \in RowsOf(sid) : n.role = "user" => m.timestamp <= n.timestamp}

FailureFields == {"error", "detail", "code"}

(***************************************************************************)
(* C15.  Every failure response, of the send endpoint and of the history   *)
(* query alike, has a body with the three fields error, detail and code.   *)
(***************************************************************************)
C15_FailuresAreStructured ==
    /\ (Returned /\ finished.response.status # 200) =>
           FailureFields \subseteq DOMAIN finished.response.body
    /\ (HistoryReturned /\ read.response.status # 200) =>
           FailureFields \subseteq DOMAIN read.response.body

\* The upstream answered the POST of frame f with a 2xx status and a body
\* that parses as JSON.
Answered2xx(f) ==
    /\ f.outcome.kind = "response"
    /\ f.outcome.status_code \in 200..299
    /\ f.outcome.parses

\* The content of the first choice of body, empty when body holds none.
FirstChoiceContent(body) ==
    IF /\ "choices" \in DOMAIN body
       /\ body.choices # <<>>
       /\ "message" \in DOMAIN body.choices[1]
       /\ "content" \in DOMAIN body.choices[1].message
       /\ body.choices[1].message.content # null
    THEN body.choices[1].message.content
    ELSE <<>>

(***************************************************************************)
(* C16.  For every 2xx answer of the upstream the client returns a result: *)
(* the content of the first choice, the model id and the usage block of    *)
(* the answer, with empty content, the requested model and an empty usage  *)
(* block standing in for whatever the answer lacks.                        *)
(***************************************************************************)
C16_Every2xxIsASuccess ==
    (Returned /\ Answered2xx(finished.frame)
              /\ ~StoreFailed(finished.frame)) =>
        LET f == finished.frame
            body == f.outcome.json
        IN  /\ f.raised = NoException
            /\ f.ai_response.content = FirstChoiceContent(body)
            /\ f.ai_response.model = Get(body, "model", f.model_name)
            /\ f.ai_response.usage = Get(body, "usage", EmptyDict)

\* The locals of the calls of post in progress and of the call that returns
\* in this state.
Frames == {frame[p] : p \in Procs} \cup {finished.frame}

\* The model the request of frame f asks for.
RequestedModel(f) ==
    IF "model_name" \in DOMAIN f.data THEN f.data.model_name
    ELSE default_model

(***************************************************************************)
(* C17.  The messages of the payload are the history handed to the client, *)
(* element by element, followed by the current message as a user turn, and *)
(* nothing else; the payload's model is the model asked for, or the        *)
(* default when none is.                                                   *)
(***************************************************************************)
C17_PayloadIsHistoryThenMessage ==
    \A f \in Frames :
        f.posts = 1 =>
            LET messages == f.payload.messages
                history == f.conversation_history
            IN  /\ Len(messages) = Len(history) + 1
                /\ \A i \in 1..Len(history) : messages[i] = history[i]
                /\ messages[Len(messages)] =
                     [role |-> "user", content |-> f.message]
                /\ f.payload.model = f.model_name
                /\ f.payload.model = RequestedModel(f)

\* A payload of a full context window whose history already holds a turn
\* equal to the current message, sent for a request that names no model.
C17_Witness ==
    /\ Returned
    /\ finished.frame.posts = 1
    /\ Len(finished.frame.payload.messages) = HistoryLimit + 1
    /\ \E i \in 1..HistoryLimit :
         finished.frame.payload.messages[i] =
           finished.frame.payload.messages[HistoryLimit + 1]
    /\ finished.frame.payload.model = default_model

\* The rows worker p's request creates in this step.
NewRows(p) == {m \in store' : m.id \in written'[p] \ written[p]}

\* Worker p's request has written its user turn and nothing else.
OnlyUserTurnWritten(p) ==
    /\ frame[p].user_message # 0
    /\ written[p] = {frame[p].user_message}
    /\ \E m \in store : m.id = frame[p].user_message /\ m.role = "user"

(***************************************************************************)
(* C18.  A send request makes at most one POST to the upstream: none when  *)
(* validation fails or no key is configured, one otherwise (the store      *)
(* accepting its writes), failed or not; the POST comes after the user     *)
(* turn is written and before any assistant turn is.                       *)
(***************************************************************************)
C18_AtMostOnePost ==
    /\ [](\A f \in Frames : f.posts <= 1)
    /\ [](Returned =>
            LET f == finished.frame
            IN  /\ (~PassedValidation(f) \/ api_key = "") => f.posts = 0
                /\ (PassedValidation(f) /\ api_key # "" /\ ~StoreFailed(f)) =>
                       f.posts = 1)
    /\ [][\A p \in Procs :
            /\ (pc[p] = "call_upstream" /\ pc'[p] # "call_upstream") =>
                   /\ OnlyUserTurnWritten(p)
                   /\ UNCHANGED store
            /\ \A m \in NewRows(p) :
                   IF m.role = "user" THEN frame[p].posts = 0
                   ELSE frame[p].posts = 1 /\ pc[p] = "persist_assistant"]_vars

\* A request whose one POST timed out has returned.
C18_Witness ==
    /\ Returned
    /\ finished.frame.outcome.kind = "Timeout"
    /\ finished.frame.posts = 1

\* The model id the upstream answer of frame f names, or the requested
\* model when it names none.
ModelUsed(f) == Get(f.outcome.json, "model", RequestedModel(f))

(***************************************************************************)
(* C19.  On a successful send the user turn carries the requested model    *)
(* (the default when the request names none), and the assistant turn and   *)
(* the response's model field carry the model id of the upstream answer,   *)
(* or the requested model when the answer names none.                      *)
(***************************************************************************)
C19_ModelTags ==
    (Returned /\ finished.response.status = 200) =>
        LET f == finished.frame
        IN  /\ \E u \in store :
                 u.id = f.user_message /\ u.model_name = RequestedModel(f)
            /\ \E a \in store :
                 a.id = f.assistant_message /\ a.model_name = ModelUsed(f)
            /\ finished.response.body.model = ModelUsed(f)

\* A request naming a model has succeeded on an answer that names none.
C19_Witness ==
    /\ Returned
    /\ finished.response.status = 200
    /\ "model_name" \in DOMAIN finished.frame.data
    /\ "model" \notin DOMAIN finished.frame.outcome.json
    /\ finished.response.body.model = "client/model"

\* A GET handler returns in the next state.
ReadStep == read'.op # None

(***************************************************************************)
(* C20.  The store is append-only: no step of a send, list-sessions or     *)
(* get-history request changes or removes a row the store holds, and the   *)
(* two GET requests leave the store as it is.                              *)
(***************************************************************************)
C20_AppendOnly ==
    [][/\ \A m \in store : m \in store'
       /\ ReadStep => store' = store
       /\ store' # store => \E p \in Procs : NewRows(p) = store' \ store]_vars

\* The session listing is returned from a store to which a send request has
\* added its two turns.
C20_Witness ==
    /\ SessionsReturned
    /\ SeedRows \subseteq store
    /\ \E p \in Procs : Cardinality(written[p]) = 2

\* The rows the send requests of this run have created.
PersistedBySend == RowsWithId(UNION {written[p] : p \in Procs})

(***************************************************************************)
(* C21.  Every row a send request has created, user turn or assistant      *)
(* turn, has content that is not empty once trimmed, whatever body the     *)
(* upstream's answer carried.                                              *)
(***************************************************************************)
C21_ContentNeverBlank ==
    \A m \in PersistedBySend : strip(m.content) # <<>>

\* Worker p's request has returned after writing both its turns.
WroteBothTurns(p) == pc[p] = "returned" /\ Cardinality(written[p]) = 2

\* The requests of all workers ran on session sid.
AllOnSession(sid) ==
    \A p \in Procs : \A m \in RowsWithId(written[p]) : m.session_id = sid

\* Worker p's user turn and assistant turn are in session sid, the user
\* turn with the earlier timestamp.
OwnTurnsInOrder(p, sid) ==
    \E u, a \in RowsOf(sid) :
        /\ written[p] = {u.id, a.id}
        /\ u.role = "user" /\ a.role = "assistant"
        /\ u.timestamp < a.timestamp

(***************************************************************************)
(* C22.  When two send requests on one session overlap and the upstream    *)
(* call of each succeeds, whatever the interleaving, the session gains     *)
(* four rows, a user turn and a later assistant turn for each request, no  *)
(* earlier row is lost or changed, and the history each request returns    *)
(* holds its own two turns.                                                *)
(***************************************************************************)
C22_ConcurrentSendsLoseNothing ==
    workload = "overlapping" =>
        /\ \A sid \in StoredSessions :
             ((\A p \in Procs : WroteBothTurns(p)) /\ AllOnSession(sid)) =>
                 /\ SeedRows \subseteq store
                 /\ Cardinality(RowsOf(sid) \ SeedRows) =
                      2 * Cardinality(Procs)
                 /\ \A p \in Procs : OwnTurnsInOrder(p, sid)
                 /\ \A p, q \in Procs :
                      p # q => written[p] \cap written[q] = {}
        /\ (Returned /\ finished.response.status = 200) =>
             \A id \in {finished.frame.user_message,
                        finished.frame.assistant_message} :
                 \E i \in 1..Len(finished.response.body.history) :
                     finished.response.body.history[i].id = id

\* Two requests on "s1" have both succeeded, the second having written its
\* user turn between the two writes of the first.
C22_Witness ==
    /\ workload = "overlapping"
    /\ \A p \in Procs : WroteBothTurns(p)
    /\ AllOnSession("s1")
    /\ Returned /\ finished.response.status = 200
    /\ \E p, q \in Procs :
         \E a \in RowsWithId(written[p]), u \in RowsWithId(written[q]) :
             /\ p # q
             /\ a.role = "assistant" /\ u.role = "user"
             /\ \E i \in written[p] : i < u.id /\ u.id < a.id
             /\ u.timestamp = a.timestamp

\* Every turn of context window h is the role and content of a row of
\* session sid other than row uid.
WindowWithin(h, sid, uid) ==
    \A i \in 1..Len(h) :
        \E m \in RowsOf(sid) :
            m.id # uid /\ m.role = h[i].role /\ m.content = h[i].content

(***************************************************************************)
(* C23.  A send request resolved to session S writes rows of S only, and   *)
(* the context window it sends and the history it returns hold messages    *)
(* of S only, whatever other sessions hold and other requests do.          *)
(***************************************************************************)
C23_SessionsIsolated ==
    /\ [](\A f \in Frames :
            PassedValidation(f) =>
                /\ WindowWithin(f.conversation_history, f.session_id,
                                f.user_message)
                /\ \A m \in RowsWithId({f.user_message, f.assistant_message}) :
                       m.session_id = f.session_id)
    /\ [](Returned /\ finished.response.status = 200 =>
            \A i \in 1..Len(finished.response.body.history) :
                finished.response.body.history[i].session_id =
                    finished.frame.session_id)
    /\ [][\A p \in Procs :
            \A m \in NewRows(p) : m.session_id = frame[p].session_id]_vars

\* A request on "s2" has succeeded after another request wrote into another
\* session.
C23_Witness ==
    /\ Returned
    /\ finished.response.status = 200
    /\ finished.frame.session_id = "s2"
    /\ Len(finished.frame.conversation_history) = HistoryLimit - 1
    /\ \E p \in Procs : \E m \in RowsWithId(written[p]) :
         m.session_id \notin {None, "s2"}

\* The sum of message_count over the entries of a session listing.
RECURSIVE TotalCount(_)
TotalCount(result) ==
    IF result = <<>> THEN 0
    ELSE Head(result).message_count + TotalCount(Tail(result))

\* The entries of a session listing for session sid.
EntriesFor(result, sid) ==
    {i \in 1..Len(result) : result[i].session_id = sid}

(***************************************************************************)
(* C24.  Every row a send request writes has a session_id that is not      *)
(* empty, a generated one standing in for a blank or missing session_id of *)
(* the request; so in a store filled by send requests alone every row is   *)
(* counted in exactly one entry of the session listing, and the            *)
(* message_count of the entries add up to the number of rows.              *)
(***************************************************************************)
C24_EveryRowInOneSession ==
    /\ \A m \in store : m.session_id \notin {None, ""}
    /\ \A f \in Frames :
         (PassedValidation(f) /\ ~NamesSession(f.data)) =>
             f.session_id \in {UUIDs[i] : i \in 1..issued}
    /\ SessionsReturned =>
         /\ TotalCount(read.response.body) = Cardinality(store)
         /\ \A m \in store :
              Cardinality(EntriesFor(read.response.body, m.session_id)) = 1

\* The listing is returned from a store that a request with a blank
\* session_id and a request without session_id have filled.
C24_Witness ==
    /\ SessionsReturned
    /\ \A p \in Procs : Cardinality(written[p]) = 2
    /\ Len(read.response.body) = 2
    /\ \E i, j \in 1..2 :
         /\ Len(read.response.body[i].title) = TitleLimit
         /\ Len(read.response.body[j].title) = TitleLimit + 3
    /\ TotalCount(read.response.body) = 4

====
